---------------------------- MODULE Spec2Model ----------------------------
(***************************************************************************)
(* Model of mail2.py: the IMAP session (ImapClient), the SMTP session      *)
(* (SmtpClient) and the interactive application (MailApp).                 *)
(*                                                                         *)
(* Spec     drives the two client classes directly: every method but       *)
(*          list_mailboxes may be called in every session state, in any    *)
(*          order.                                                         *)
(* SpecList is Spec with list_mailboxes and the LIST responses it parses.  *)
(* SpecApp  is the program as main() runs it: start, the menu, browsing,   *)
(*          opening a message, reply / forward / compose, shutdown.        *)
(*                                                                         *)
(* The servers are the environment: every reply a server can give to a     *)
(* command is an input of the action that issues the command.              *)
(* Strings are sequences of one-character strings.                         *)
(***************************************************************************)
EXTENDS Naturals, Sequences, FiniteSets

VARIABLES
    cfg,      \* CONFIG["smtp"]: [ssl, starttls_fallback]
    imap,     \* ImapClient.conn and the imaplib state of that connection
    smtp,     \* SmtpClient.conn and the connections the session has opened
    last,     \* what the last call did: result, warning, commands issued
    pc,       \* MailApp: the prompt the program is waiting at
    view      \* MailApp: locals alive across prompts (mailbox, uids, msg)

vars == <<cfg, imap, smtp, last, pc, view>>

(***************************************************************************)
(* Bounds of the model.                                                    *)
(***************************************************************************)
\* connections a session may leave open and unreferenced before connect is
\* no longer called
MaxLeaked == 2
\* lines in one LIST response
MaxLines == 2
\* characters in one line typed at a recipient prompt
MaxLine == 3
\* UIDs one SEARCH returns
MaxUids == 2
\* prefixes and words a Subject header is made of
MaxTokens == 3
\* parts of a message
MaxParts == 2

(***************************************************************************)
(* Configuration: FOLDERS roles, mail2.py:35.                              *)
(***************************************************************************)
Folders == {"inbox", "sent", "trash", "spam"}
NoFolder == "-"
SentBox == "sent"

(***************************************************************************)
(* A command put on the wire (or a connection opened).                     *)
(*   op   the command                                                      *)
(*   ok   whether the library call that issued it returned normally with   *)
(*        an OK reply                                                      *)
(*   arg  the folder it names (NoFolder when none)                         *)
(*   ctx  for an IMAP command the folder selected when it was issued, for  *)
(*        an SMTP command the channel: "tls" or "plain"                    *)
(***************************************************************************)
Ev(op, ok, arg, ctx) == [op |-> op, ok |-> ok, arg |-> arg, ctx |-> ctx]

\* how many times a command occurs in a sequence of commands
Count(ops, name) == Cardinality({i \in 1..Len(ops) : ops[i].op = name})

(***************************************************************************)
(* imaplib.IMAP4 as ImapClient uses it.                                    *)
(*   conn  "None" while self.conn is None, otherwise the state of the      *)
(*         imaplib object: NONAUTH, AUTH, SELECTED, LOGOUT                 *)
(*   sel   the folder selected on that connection                          *)
(***************************************************************************)
ImapNew == [conn |-> "None", sel |-> NoFolder]

\* replies of the server to one command; BAD makes imaplib raise
Replies == {"OK", "NO", "BAD"}
\* SELECT may also answer OK with READ-ONLY: imaplib selects and raises
SelectReplies == Replies \cup {"READONLY"}

\* imaplib's Commands table: the states a command is legal in
Legal(cmd, state) ==
    CASE cmd \in {"LIST", "SELECT", "APPEND"} -> state \in {"AUTH", "SELECTED"}
      [] cmd = "UID" -> state = "SELECTED"
      [] OTHER -> FALSE

\* ImapClient.connect
ImapConnect(s, tlsOk, loginOk) ==
    IF ~tlsOk
      THEN [imap |-> s, raised |-> TRUE,
            ops |-> <<Ev("imap_open", FALSE, NoFolder, "tls")>>]
      ELSE IF ~loginOk
        THEN [imap |-> [conn |-> "NONAUTH", sel |-> NoFolder], raised |-> TRUE,
              ops |-> <<Ev("imap_open", TRUE, NoFolder, "tls"),
                        Ev("imap_login", FALSE, NoFolder, "tls")>>]
        ELSE [imap |-> [conn |-> "AUTH", sel |-> NoFolder], raised |-> FALSE,
              ops |-> <<Ev("imap_open", TRUE, NoFolder, "tls"),
                        Ev("imap_login", TRUE, NoFolder, "tls")>>]

\* ImapClient.close: logout, every error swallowed
ImapClose(s) ==
    IF s.conn = "None"
      THEN [imap |-> s, raised |-> FALSE, ops |-> <<>>]
      ELSE [imap |-> [conn |-> "LOGOUT", sel |-> NoFolder], raised |-> FALSE,
            ops |-> <<Ev("imap_logout", TRUE, NoFolder, s.sel)>>]

\* imaplib.IMAP4.select: the state after the server's reply
SelectState(s, mailbox, reply) ==
    CASE reply \in {"OK", "READONLY"} -> [conn |-> "SELECTED", sel |-> mailbox]
      [] reply = "NO" -> [conn |-> "AUTH", sel |-> NoFolder]
      [] OTHER -> s

\* ImapClient.select_mailbox
ImapSelect(s, mailbox, reply) ==
    IF s.conn = "None" \/ ~Legal("SELECT", s.conn)
      THEN [imap |-> s, raised |-> TRUE, ops |-> <<>>]
      ELSE [imap |-> SelectState(s, mailbox, reply),
            raised |-> reply # "OK",
            ops |-> <<Ev("SELECT", reply = "OK", mailbox, s.sel)>>]

\* ImapClient.search_uids: the number of UIDs returned
ImapSearch(s, reply, n) ==
    IF s.conn = "None" \/ ~Legal("UID", s.conn)
      THEN [imap |-> s, raised |-> TRUE, ops |-> <<>>, n |-> 0]
      ELSE [imap |-> s, raised |-> reply = "BAD",
            ops |-> <<Ev("SEARCH", reply = "OK", NoFolder, s.sel)>>,
            n |-> IF reply = "OK" THEN n ELSE 0]

\* ImapClient.fetch_headers: a reply other than OK gives ("", "", "")
ImapFetchHeaders(s, reply) ==
    IF s.conn = "None" \/ ~Legal("UID", s.conn)
      THEN [imap |-> s, raised |-> TRUE, ops |-> <<>>]
      ELSE [imap |-> s, raised |-> reply = "BAD",
            ops |-> <<Ev("FETCH_HEADERS", reply = "OK", NoFolder, s.sel)>>]

\* ImapClient.fetch_full: a reply other than OK raises
ImapFetchFull(s, reply) ==
    IF s.conn = "None" \/ ~Legal("UID", s.conn)
      THEN [imap |-> s, raised |-> TRUE, ops |-> <<>>]
      ELSE [imap |-> s, raised |-> reply # "OK",
            ops |-> <<Ev("FETCH_FULL", reply = "OK", NoFolder, s.sel)>>]

\* imaplib.IMAP4.append as both callers use it: NO is returned, not raised,
\* and neither caller looks at the returned value
ImapAppend(s, mailbox, reply) ==
    IF s.conn = "None" \/ ~Legal("APPEND", s.conn)
      THEN [imap |-> s, raised |-> TRUE, ops |-> <<>>]
      ELSE [imap |-> s, raised |-> reply = "BAD",
            ops |-> <<Ev("APPEND", reply = "OK", mailbox, s.sel)>>]

(***************************************************************************)
(* smtplib.SMTP as SmtpClient uses it.                                     *)
(*   conn    the connection self.conn refers to: kind "None" while it is   *)
(*           None, "ssl" for SMTP_SSL, "plain" for SMTP on port 587;       *)
(*           open: the socket is open; tls: the channel is encrypted;      *)
(*           auth: login succeeded on it                                   *)
(*   leaked  connections the session opened, still open, that self.conn    *)
(*           no longer refers to                                           *)
(***************************************************************************)
ConnNone == [kind |-> "None", open |-> FALSE, tls |-> FALSE, auth |-> FALSE]
Conn(kind, open, tls, auth) ==
    [kind |-> kind, open |-> open, tls |-> tls, auth |-> auth]
SmtpNew == [conn |-> ConnNone, leaked |-> 0]

\* self.conn = <a new connection>: the old object is dropped as it is
Hold(s, c) ==
    [conn |-> c, leaked |-> s.leaked + (IF s.conn.open THEN 1 ELSE 0)]

\* where the implicit-TLS attempt can end
ImplicitOutcomes == {"open_fail", "login_fail", "ok"}
\* where the STARTTLS attempt can end; ehlo fails only by losing the
\* connection, which closes the socket
UpgradeOutcomes == {"open_fail", "ehlo_fail", "starttls_fail", "login_fail", "ok"}

\* SmtpClient.connect, the try block
TryImplicit(s, c, io) ==
    IF ~c.ssl
      THEN [smtp |-> s, raised |-> TRUE, ops |-> <<>>]
      ELSE CASE io = "open_fail" ->
                  [smtp |-> s, raised |-> TRUE,
                   ops |-> <<Ev("smtp_open465", FALSE, NoFolder, "tls")>>]
             [] io = "login_fail" ->
                  [smtp |-> Hold(s, Conn("ssl", TRUE, TRUE, FALSE)), raised |-> TRUE,
                   ops |-> <<Ev("smtp_open465", TRUE, NoFolder, "tls"),
                             Ev("smtp_login", FALSE, NoFolder, "tls")>>]
             [] OTHER ->
                  [smtp |-> Hold(s, Conn("ssl", TRUE, TRUE, TRUE)), raised |-> FALSE,
                   ops |-> <<Ev("smtp_open465", TRUE, NoFolder, "tls"),
                             Ev("smtp_login", TRUE, NoFolder, "tls")>>]

\* the except branch without regard to the result of starttls
TryUpgradeLogsInAnyway(s, fo) ==
    CASE fo = "open_fail" ->
           [smtp |-> s, raised |-> TRUE,
            ops |-> <<Ev("smtp_open587", FALSE, NoFolder, "plain")>>]
      [] fo = "ehlo_fail" ->
           [smtp |-> Hold(s, Conn("plain", FALSE, FALSE, FALSE)), raised |-> TRUE,
            ops |-> <<Ev("smtp_open587", TRUE, NoFolder, "plain"),
                      Ev("smtp_ehlo", FALSE, NoFolder, "plain")>>]
      [] fo = "starttls_fail" ->
           [smtp |-> Hold(s, Conn("plain", TRUE, FALSE, TRUE)), raised |-> FALSE,
            ops |-> <<Ev("smtp_open587", TRUE, NoFolder, "plain"),
                      Ev("smtp_ehlo", TRUE, NoFolder, "plain"),
                      Ev("smtp_starttls", FALSE, NoFolder, "plain"),
                      Ev("smtp_login", TRUE, NoFolder, "plain")>>]
      [] fo = "login_fail" ->
           [smtp |-> Hold(s, Conn("plain", TRUE, TRUE, FALSE)), raised |-> TRUE,
            ops |-> <<Ev("smtp_open587", TRUE, NoFolder, "plain"),
                      Ev("smtp_ehlo", TRUE, NoFolder, "plain"),
                      Ev("smtp_starttls", TRUE, NoFolder, "plain"),
                      Ev("smtp_login", FALSE, NoFolder, "tls")>>]
      [] OTHER ->
           [smtp |-> Hold(s, Conn("plain", TRUE, TRUE, TRUE)), raised |-> FALSE,
            ops |-> <<Ev("smtp_open587", TRUE, NoFolder, "plain"),
                      Ev("smtp_ehlo", TRUE, NoFolder, "plain"),
                      Ev("smtp_starttls", TRUE, NoFolder, "plain"),
                      Ev("smtp_login", TRUE, NoFolder, "tls")>>]

\* SmtpClient.connect, the body of the except branch when fallback is allowed
TryUpgrade(s, fo) ==
    CASE fo = "open_fail" ->
           [smtp |-> s, raised |-> TRUE,
            ops |-> <<Ev("smtp_open587", FALSE, NoFolder, "plain")>>]
      [] fo = "ehlo_fail" ->
           [smtp |-> Hold(s, Conn("plain", FALSE, FALSE, FALSE)), raised |-> TRUE,
            ops |-> <<Ev("smtp_open587", TRUE, NoFolder, "plain"),
                      Ev("smtp_ehlo", FALSE, NoFolder, "plain")>>]
      [] fo = "starttls_fail" ->
           [smtp |-> Hold(s, Conn("plain", TRUE, FALSE, FALSE)), raised |-> TRUE,
            ops |-> <<Ev("smtp_open587", TRUE, NoFolder, "plain"),
                      Ev("smtp_ehlo", TRUE, NoFolder, "plain"),
                      Ev("smtp_starttls", FALSE, NoFolder, "plain")>>]
      [] fo = "login_fail" ->
           [smtp |-> Hold(s, Conn("plain", TRUE, TRUE, FALSE)), raised |-> TRUE,
            ops |-> <<Ev("smtp_open587", TRUE, NoFolder, "plain"),
                      Ev("smtp_ehlo", TRUE, NoFolder, "plain"),
                      Ev("smtp_starttls", TRUE, NoFolder, "plain"),
                      Ev("smtp_login", FALSE, NoFolder, "tls")>>]
      [] OTHER ->
           [smtp |-> Hold(s, Conn("plain", TRUE, TRUE, TRUE)), raised |-> FALSE,
            ops |-> <<Ev("smtp_open587", TRUE, NoFolder, "plain"),
                      Ev("smtp_ehlo", TRUE, NoFolder, "plain"),
                      Ev("smtp_starttls", TRUE, NoFolder, "plain"),
                      Ev("smtp_login", TRUE, NoFolder, "tls")>>]

\* connect with a second STARTTLS attempt after a failed one
SmtpConnectRetries(s, c, io, fo) ==
    LET a == TryImplicit(s, c, io) IN
    IF ~a.raised
      THEN [smtp |-> a.smtp, raised |-> FALSE, ops |-> a.ops, err |-> ""]
      ELSE IF c.fallback
        THEN LET b == TryUpgrade(a.smtp, fo) IN
             IF b.raised
               THEN LET b2 == TryUpgrade(b.smtp, fo) IN
                    [smtp |-> b2.smtp, raised |-> b2.raised,
                     ops |-> a.ops \o b.ops \o b2.ops, err |-> "upgrade"]
               ELSE [smtp |-> b.smtp, raised |-> FALSE, ops |-> a.ops \o b.ops,
                     err |-> ""]
        ELSE [smtp |-> a.smtp, raised |-> TRUE, ops |-> a.ops,
              err |-> IF c.ssl THEN "implicit" ELSE "disabled"]

\* connect that falls back without reading starttls_fallback
SmtpConnectAlwaysFallsBack(s, c, io, fo) ==
    LET a == TryImplicit(s, c, io) IN
    IF ~a.raised
      THEN [smtp |-> a.smtp, raised |-> FALSE, ops |-> a.ops, err |-> ""]
      ELSE LET b == TryUpgrade(a.smtp, fo) IN
           [smtp |-> b.smtp, raised |-> b.raised, ops |-> a.ops \o b.ops,
            err |-> IF b.raised THEN "upgrade" ELSE ""]

\* connect that goes on to STARTTLS after the implicit attempt whatever its
\* result
SmtpConnectTriesBoth(s, c, io, fo) ==
    LET a == TryImplicit(s, c, io) IN
    IF c.fallback
      THEN LET b == TryUpgrade(a.smtp, fo) IN
           [smtp |-> b.smtp, raised |-> b.raised, ops |-> a.ops \o b.ops,
            err |-> IF b.raised THEN "upgrade" ELSE ""]
      ELSE [smtp |-> a.smtp, raised |-> a.raised, ops |-> a.ops,
            err |-> IF ~a.raised THEN "" ELSE IF c.ssl THEN "implicit" ELSE "disabled"]

\* SmtpClient.connect.  err names the exception that leaves connect:
\* "implicit" the one of the implicit attempt, "disabled" the one raised
\* because ssl is off, "upgrade" the one of the STARTTLS attempt
SmtpConnect(s, c, io, fo) ==
    LET a == TryImplicit(s, c, io) IN
    IF ~a.raised
      THEN [smtp |-> a.smtp, raised |-> FALSE, ops |-> a.ops, err |-> ""]
      ELSE IF c.fallback
        THEN LET b == TryUpgrade(a.smtp, fo) IN
             [smtp |-> b.smtp, raised |-> b.raised, ops |-> a.ops \o b.ops,
              err |-> IF b.raised THEN "upgrade" ELSE ""]
        ELSE [smtp |-> a.smtp, raised |-> TRUE, ops |-> a.ops,
              err |-> IF c.ssl THEN "implicit" ELSE "disabled"]

\* SmtpClient.close: quit, every error swallowed; quit closes the socket
SmtpClose(s) ==
    IF s.conn.kind = "None"
      THEN [smtp |-> s, raised |-> FALSE, ops |-> <<>>]
      ELSE [smtp |-> [s EXCEPT !.conn.open = FALSE, !.conn.auth = FALSE],
            raised |-> FALSE,
            ops |-> <<Ev("smtp_quit", s.conn.open, NoFolder,
                         IF s.conn.tls THEN "tls" ELSE "plain")>>]

\* smtplib.send_message raises SMTPRecipientsRefused when the To header
\* yields no address
HasRecipient(to) == \E i \in 1..Len(to) : to[i] # <<>>

\* what the submission server answers to the message
SendReplies == {"accepted", "rejected"}

\* send_text that stores the copy in Sent before it transmits
SmtpSendTextArchivesFirst(s, im, to, sendReply, archiver, selReply, appReply) ==
    IF s.conn.kind = "None" \/ ~s.conn.open
      THEN [smtp |-> s, imap |-> im, raised |-> TRUE, warning |-> FALSE,
            reported |-> FALSE, ops |-> <<>>]
      ELSE
        LET chan == IF s.conn.tls THEN "tls" ELSE "plain"
            sent == sendReply = "accepted" /\ HasRecipient(to)
            tx == <<Ev("smtp_send", sent, NoFolder, chan)>>
            sl == ImapSelect(im, SentBox, selReply)
            ap == ImapAppend(sl.imap, SentBox, appReply)
            im2 == IF ~archiver THEN im ELSE IF sl.raised THEN sl.imap ELSE ap.imap
            aops == IF ~archiver THEN <<>>
                    ELSE IF sl.raised THEN sl.ops ELSE sl.ops \o ap.ops
        IN [smtp |-> s, imap |-> im2, raised |-> ~sent,
            warning |-> archiver /\ (sl.raised \/ ap.raised),
            reported |-> archiver /\ ~sl.raised /\ ~ap.raised,
            ops |-> aops \o tx]

\* SmtpClient.send_text(to_addrs, ..., imap_client): archiver is whether an
\* imap_client is passed, im is that client
SmtpSendText(s, im, to, sendReply, archiver, selReply, appReply) ==
    IF s.conn.kind = "None" \/ ~s.conn.open
      THEN [smtp |-> s, imap |-> im, raised |-> TRUE, warning |-> FALSE,
            reported |-> FALSE, ops |-> <<>>]
      ELSE
        LET chan == IF s.conn.tls THEN "tls" ELSE "plain"
            sent == sendReply = "accepted" /\ HasRecipient(to)
            tx == <<Ev("smtp_send", sent, NoFolder, chan)>>
        IN
        IF ~sent
          THEN [smtp |-> s, imap |-> im, raised |-> TRUE, warning |-> FALSE,
                reported |-> FALSE, ops |-> tx]
          ELSE IF ~archiver
            THEN [smtp |-> s, imap |-> im, raised |-> FALSE, warning |-> FALSE,
                  reported |-> FALSE, ops |-> tx]
            ELSE
              LET sl == ImapSelect(im, SentBox, selReply) IN
              IF sl.raised
                THEN [smtp |-> s, imap |-> sl.imap, raised |-> FALSE,
                      warning |-> TRUE, reported |-> FALSE, ops |-> tx \o sl.ops]
                ELSE
                  LET ap == ImapAppend(sl.imap, SentBox, appReply) IN
                  [smtp |-> s, imap |-> ap.imap, raised |-> FALSE,
                   warning |-> ap.raised, reported |-> ~ap.raised,
                   ops |-> tx \o sl.ops \o ap.ops]

(***************************************************************************)
(* Strings.                                                                *)
(***************************************************************************)
Quote == "\""
Space == " "

\* str.lower on the letters of the model
Lower(ch) ==
    CASE ch = "A" -> "a" [] ch = "B" -> "b" [] ch = "D" -> "d" [] ch = "E" -> "e"
      [] ch = "F" -> "f" [] ch = "I" -> "i" [] ch = "L" -> "l" [] ch = "N" -> "n"
      [] ch = "R" -> "r" [] ch = "W" -> "w" [] OTHER -> ch
LowerStr(s) == [i \in 1..Len(s) |-> Lower(s[i])]

\* code points, for the order sorted() uses
Code(ch) ==
    CASE ch = " " -> 32 [] ch = "\"" -> 34 [] ch = "(" -> 40 [] ch = ")" -> 41
      [] ch = "," -> 44 [] ch = "." -> 46 [] ch = "/" -> 47
      [] ch = "A" -> 65 [] ch = "B" -> 66 [] ch = "I" -> 73 [] ch = "L" -> 76
      [] ch = "N" -> 78 [] ch = "a" -> 97 [] ch = "b" -> 98 [] ch = "e" -> 101
      [] ch = "i" -> 105 [] ch = "l" -> 108 [] ch = "n" -> 110 [] ch = "o" -> 111
      [] ch = "x" -> 120 [] OTHER -> 0

\* s <= t as Python compares strings
RECURSIVE StrLeq(_, _)
StrLeq(s, t) ==
    IF s = <<>> THEN TRUE
    ELSE IF t = <<>> THEN FALSE
    ELSE IF Code(Head(s)) # Code(Head(t)) THEN Code(Head(s)) < Code(Head(t))
    ELSE StrLeq(Tail(s), Tail(t))

\* s.strip(): leading and trailing spaces removed
RECURSIVE LStrip(_)
LStrip(s) == IF s # <<>> /\ Head(s) = Space THEN LStrip(Tail(s)) ELSE s
RECURSIVE RStrip(_)
RStrip(s) ==
    IF s # <<>> /\ s[Len(s)] = Space THEN RStrip(SubSeq(s, 1, Len(s) - 1)) ELSE s
Strip(s) == RStrip(LStrip(s))

\* s.strip('"')
RECURSIVE LStripQ(_)
LStripQ(s) == IF s # <<>> /\ Head(s) = Quote THEN LStripQ(Tail(s)) ELSE s
RECURSIVE RStripQ(_)
RStripQ(s) ==
    IF s # <<>> /\ s[Len(s)] = Quote THEN RStripQ(SubSeq(s, 1, Len(s) - 1)) ELSE s
StripQ(s) == RStripQ(LStripQ(s))

\* s.split(","): the pieces between commas, empty ones kept
RECURSIVE SplitComma(_)
SplitComma(s) ==
    IF \A i \in 1..Len(s) : s[i] # ","
      THEN <<s>>
      ELSE LET k == CHOOSE i \in 1..Len(s) :
                        s[i] = "," /\ \A j \in 1..(i - 1) : s[j] # ","
           IN <<SubSeq(s, 1, k - 1)>> \o SplitComma(SubSeq(s, k + 1, Len(s)))

\* s.split()[-1]: the last run of characters that are not spaces; the
\* caller checks that there is one
LastToken(s) ==
    LET r == RStrip(s)
        starts == {i \in 1..Len(r) : \A j \in i..Len(r) : r[j] # Space}
        k == CHOOSE i \in starts : \A j \in starts : i <= j
    IN SubSeq(r, k, Len(r))

\* re.findall(r'"([^"]+)"', s) from position i on
RECURSIVE FindAllQuoted(_, _)
FindAllQuoted(s, i) ==
    IF i > Len(s) THEN <<>>
    ELSE IF s[i] # Quote THEN FindAllQuoted(s, i + 1)
    ELSE LET closing == {j \in (i + 1)..Len(s) : s[j] = Quote} IN
         IF closing = {} THEN <<>>
         ELSE LET j == CHOOSE x \in closing : \A y \in closing : x <= y IN
              IF j = i + 1 THEN FindAllQuoted(s, i + 1)
              ELSE <<SubSeq(s, i + 1, j - 1)>> \o FindAllQuoted(s, j + 1)

(***************************************************************************)
(* ImapClient.list_mailboxes.                                              *)
(***************************************************************************)
\* an element of data that is not bytes: imaplib hands back None when the
\* server sent no LIST line
NoneLine == <<"None">>

\* line.decode("utf-8", errors="replace"), and str(line) when the element
\* has no decode
Decoded(line) == IF line = NoneLine THEN <<"N", "o", "n", "e">> ELSE line

\* the loop body up to the name: a line with no token makes split()[-1]
\* raise IndexError
NameRaises(line) == FindAllQuoted(line, 1) = <<>> /\ Strip(line) = <<>>
NameOf(line) ==
    LET m == FindAllQuoted(line, 1) IN
    IF m # <<>> THEN m[Len(m)] ELSE StripQ(LastToken(line))

\* the filter before boxes.append(name)
KeepName(name) == name # <<>> /\ name # <<".">> /\ name # <<Quote, Quote>>

\* boxes after the loop over data
RECURSIVE Boxes(_)
Boxes(data) ==
    IF data = <<>> THEN <<>>
    ELSE LET name == NameOf(Decoded(Head(data))) IN
         (IF KeepName(name) THEN <<name>> ELSE <<>>) \o Boxes(Tail(data))

SeqRange(q) == {q[i] : i \in 1..Len(q)}

\* sorted(set(boxes), key=str.lower): set() keeps names that differ in any
\* character; names with equal keys come out in the set's iteration order,
\* which is any order
SortedSets(S) ==
    {r \in [1..Cardinality(S) -> S] :
        /\ \A i, j \in 1..Cardinality(S) : i # j => r[i] # r[j]
        /\ \A i, j \in 1..Cardinality(S) :
              i < j => StrLeq(LowerStr(r[i]), LowerStr(r[j]))}

\* the values list_mailboxes can return for a reply (typ, data), and whether
\* it raises
ImapListMailboxes(s, reply, data) ==
    IF s.conn = "None" \/ ~Legal("LIST", s.conn)
      THEN {[imap |-> s, raised |-> TRUE, ops |-> <<>>, value |-> <<>>]}
      ELSE LET op == <<Ev("LIST", reply = "OK", NoFolder, s.sel)>> IN
        IF reply = "BAD" \/ (reply = "OK" /\ \E i \in 1..Len(data) : NameRaises(Decoded(data[i])))
          THEN {[imap |-> s, raised |-> TRUE, ops |-> op, value |-> <<>>]}
          ELSE IF reply # "OK" \/ data = <<>>
            THEN {[imap |-> s, raised |-> FALSE, ops |-> op, value |-> <<>>]}
            ELSE {[imap |-> s, raised |-> FALSE, ops |-> op, value |-> r] :
                      r \in SortedSets(SeqRange(Boxes(data)))}

\* the LIST responses of the model: flags, a quoted delimiter, the name
\* quoted or bare
FolderNames == {<<"a">>, <<"A">>, <<"b">>}
ListPrefix == <<"(", "x", ")", " ", "\"", "/", "\"", " ">>
ListingLines ==
    {ListPrefix \o <<Quote>> \o n \o <<Quote>> : n \in FolderNames}
        \cup {ListPrefix \o <<"b">>}
Listings == UNION {[1..k -> ListingLines] : k \in 0..MaxLines}

\* every shape of LIST line: flags, the hierarchy delimiter (quoted or NIL),
\* the name (quoted or bare)
Delimiters == {<<Quote, "/", Quote>>, <<Quote, ".", Quote>>, <<"N", "I", "L">>}
Line(delim, name, quoted) ==
    <<"(", "x", ")", Space>> \o delim \o <<Space>>
        \o (IF quoted THEN <<Quote>> \o name \o <<Quote>> ELSE name)
WellFormedLines ==
    {Line(d, n, q) : d \in Delimiters, n \in FolderNames, q \in BOOLEAN}
\* the line that only tells the delimiter: its name is the empty string
SentinelLines == {Line(d, <<>>, TRUE) : d \in Delimiters}
\* lines that are no listing line: empty, blank, without a name token, and
\* the element that is not bytes
MalformedLines ==
    {<<>>, <<Space>>, <<"(", "x", ")", Space, Quote, "/", Quote>>, NoneLine}
ResponseLines == WellFormedLines \cup SentinelLines \cup MalformedLines
Responses == UNION {[1..k -> ResponseLines] : k \in 0..MaxLines}

(***************************************************************************)
(* MailApp: what the prompts accept and what is made of it.                *)
(***************************************************************************)
\* the keys of the model at a recipient prompt
LineChars == {"a", ",", " "}
TypedLines == UNION {[1..k -> LineChars] : k \in 0..MaxLine}

\* input_nonempty returns the stripped line once it is not empty
Accepted(line) == Strip(line) # <<>>

\* [a.strip() for a in to_line.split(",") if a.strip()]
RECURSIVE StripAll(_)
StripAll(parts) ==
    IF parts = <<>> THEN <<>>
    ELSE (IF Strip(Head(parts)) # <<>> THEN <<Strip(Head(parts))>> ELSE <<>>)
             \o StripAll(Tail(parts))
ToAddrs(to_line) == StripAll(SplitComma(to_line))

\* the From header of a fetched message: absent, present without an
\* address, a bare address, a display name with an address
FromHeaders == {"None", "<>", "a", "B <a>"}

\* email.utils.parseaddr(h)[1]
ParseAddr(h) == IF h \in {"a", "B <a>"} THEN <<"a">> ELSE <<>>

(***************************************************************************)
(* Subjects of replies and forwards.                                       *)
(***************************************************************************)
StartsWith(s, p) == Len(s) >= Len(p) /\ SubSeq(s, 1, Len(p)) = p

\* what a Subject header is made of: prefixes in several letter cases, with
\* and without the space, and words
SubjectTokens ==
    {<<"R", "e", ":", " ">>, <<"r", "E", ":">>, <<"F", "w", ":", " ">>,
     <<"f", "W", ":">>, <<"F", "w", "d", ":", " ">>, <<"x">>, <<"R", "e">>}
RECURSIVE Concat(_)
Concat(q) == IF q = <<>> THEN <<>> ELSE Head(q) \o Concat(Tail(q))
Subjects == {Concat(q) : q \in UNION {[1..k -> SubjectTokens] : k \in 0..MaxTokens}}
\* original.get("Subject") of a message without the header
NoSubject == <<"None">>
SubjectHeaders == Subjects \cup {NoSubject}

\* original.get("Subject") or ""
SubjectOf(h) == IF h = NoSubject THEN <<>> ELSE h

\* reply_to_message: the subject of the reply
ReplySubjectCaseSensitive(h) ==
    LET subject == SubjectOf(h) IN
    IF ~StartsWith(subject, <<"R", "e", ":">>)
      THEN <<"R", "e", ":", " ">> \o subject
      ELSE subject
ReplySubject(h) ==
    LET subject == SubjectOf(h) IN
    IF ~StartsWith(LowerStr(subject), <<"r", "e", ":">>)
      THEN <<"R", "e", ":", " ">> \o subject
      ELSE subject

\* forward_message: the subject of the forward
ForwardSubjectTestsFwd(h) ==
    LET subject == SubjectOf(h) IN
    IF ~StartsWith(LowerStr(subject), <<"f", "w", "d", ":">>)
      THEN <<"F", "w", "d", ":", " ">> \o subject
      ELSE subject
ForwardSubject(h) ==
    LET subject == SubjectOf(h) IN
    IF ~StartsWith(LowerStr(subject), <<"f", "w", ":">>)
      THEN <<"F", "w", "d", ":", " ">> \o subject
      ELSE subject

(***************************************************************************)
(* extract_text_plain.                                                     *)
(*   A message is multipart or not, and a sequence of parts in document    *)
(*   order (the message itself when it is not multipart).  A part has a    *)
(*   content type, a disposition, a declared charset ("none": no charset   *)
(*   parameter; "x-unknown": one Python has no codec for) and bytes that   *)
(*   are valid in the charset or not.                                      *)
(***************************************************************************)
FallbackCharset == "utf-8"
UnknownCharset == "x-unknown"
Charsets == {"none", FallbackCharset, UnknownCharset}
Part(ctype, attachment, charset, valid) ==
    [ctype |-> ctype, attachment |-> attachment, charset |-> charset,
     valid |-> valid]
PlainParts ==
    {Part("text/plain", a, c, v) : a \in BOOLEAN, c \in Charsets, v \in BOOLEAN}
Parts ==
    PlainParts \cup {Part("text/html", FALSE, FallbackCharset, TRUE),
                     Part("image/png", TRUE, "none", TRUE)}
Messages ==
    {[multipart |-> TRUE, parts |-> q] :
         q \in UNION {[1..k -> Parts] : k \in 1..MaxParts}}
        \cup {[multipart |-> FALSE, parts |-> <<p>>] : p \in Parts}
NoMessage == [multipart |-> FALSE, parts |-> <<>>]

\* what extract_text_plain returns: the content of part number part, with
\* or without substitution characters, or one of the three notices
Content(i, p) == [kind |-> "content", part |-> i, replaced |-> ~p.valid]
Notice(kind) == [kind |-> kind, part |-> 0, replaced |-> FALSE]
NoText == Notice("-")

\* part.get_content() decodes with the declared charset (ASCII without one)
\* and errors="replace": it raises LookupError for a charset without codec
GetContentRaises(p) == p.charset = UnknownCharset
\* bytes.decode(part.get_content_charset() or FALLBACK_CHARSET,
\* errors="replace") raises LookupError for a charset without codec
FallbackRaises(p) ==
    (IF p.charset = "none" THEN FallbackCharset ELSE p.charset) = UnknownCharset

\* the loop over msg.walk() from part i on
RECURSIVE WalkParts(_, _)
WalkParts(parts, i) ==
    IF i > Len(parts) THEN Notice("no_text_part")
    ELSE LET p == parts[i] IN
         IF p.ctype = "text/plain" /\ ~p.attachment
           THEN IF ~GetContentRaises(p) THEN Content(i, p)
                ELSE IF ~FallbackRaises(p) THEN Content(i, p)
                ELSE WalkParts(parts, i + 1)
           ELSE WalkParts(parts, i + 1)

ExtractTextPlain(msg) ==
    IF msg.multipart THEN WalkParts(msg.parts, 1)
    ELSE LET p == msg.parts[1] IN
         IF p.ctype \in {"text/plain", "text/html"}
           THEN IF ~GetContentRaises(p) THEN Content(1, p)
                ELSE IF ~FallbackRaises(p) THEN Content(1, p)
                ELSE Notice("undecodable")
           ELSE Notice("not_text")

(***************************************************************************)
(* The record of the last call.                                            *)
(*   op        the method called                                           *)
(*   raised    it raised (in SpecApp: the action printed an error)         *)
(*   err       for connect, the exception that left it                     *)
(*   warning   send_text printed the "could not store in Sent" warning     *)
(*   reported  send_text printed that the copy was written to Sent         *)
(*   ops       the commands issued, in order                               *)
(*   value     the list returned by list_mailboxes                         *)
(*   data      the LIST response it was returned for (SpecParse)           *)
(*   original  the Subject header of the message replied to or forwarded   *)
(*   subject   the subject of the reply or forward                         *)
(*   msg, text the message given to extract_text_plain, and what it        *)
(*             returned                                                    *)
(*   handed    send_text was called; to and archiver are its arguments     *)
(*   folder    the mailbox argument (select, append, browse)               *)
(*   selReply  the server's reply to the SELECT the call issued, if any    *)
(*   preImap, preSmtp  the sessions before the call                        *)
(***************************************************************************)
Last(op, raised, ops, preI, preS) ==
    [op |-> op, raised |-> raised, err |-> "", warning |-> FALSE,
     reported |-> FALSE, ops |-> ops, value |-> <<>>, handed |-> FALSE,
     to |-> <<>>, archiver |-> FALSE, folder |-> NoFolder, selReply |-> "-",
     data |-> <<>>, original |-> <<>>, subject |-> <<>>, msg |-> NoMessage,
     text |-> NoText,
     preImap |-> preI, preSmtp |-> preS]

NoView == [mailbox |-> NoFolder, origin |-> NoFolder, n |-> 0, from |-> "None"]

Init ==
    /\ cfg \in [ssl : BOOLEAN, fallback : BOOLEAN]
    /\ imap = ImapNew
    /\ smtp = SmtpNew
    /\ last = Last("init", FALSE, <<>>, ImapNew, SmtpNew)
    /\ pc = "start"
    /\ view = NoView

(***************************************************************************)
(* Spec, SpecList: the methods of the two classes, called in any order.    *)
(***************************************************************************)
CallImapConnect ==
    \E tlsOk \in BOOLEAN, loginOk \in BOOLEAN :
        LET r == ImapConnect(imap, tlsOk, loginOk) IN
        /\ imap' = r.imap
        /\ last' = Last("imap_connect", r.raised, r.ops, imap, smtp)
        /\ UNCHANGED <<cfg, smtp, pc, view>>

CallImapClose ==
    LET r == ImapClose(imap) IN
    /\ imap' = r.imap
    /\ last' = Last("imap_close", r.raised, r.ops, imap, smtp)
    /\ UNCHANGED <<cfg, smtp, pc, view>>

\* data is read only when the reply is OK
CallListMailboxes ==
    \E reply \in Replies, data \in Listings :
        /\ reply # "OK" => data = <<>>
        /\ \E r \in ImapListMailboxes(imap, reply, data) :
              /\ imap' = r.imap
              /\ last' = [Last("list_mailboxes", r.raised, r.ops, imap, smtp)
                             EXCEPT !.value = r.value]
              /\ UNCHANGED <<cfg, smtp, pc, view>>

CallSelectMailbox ==
    \E mailbox \in Folders, reply \in SelectReplies :
        LET r == ImapSelect(imap, mailbox, reply) IN
        /\ imap' = r.imap
        /\ last' = [Last("select_mailbox", r.raised, r.ops, imap, smtp)
                       EXCEPT !.folder = mailbox,
                              !.selReply = IF r.ops = <<>> THEN "-" ELSE reply]
        /\ UNCHANGED <<cfg, smtp, pc, view>>

CallSearchUids ==
    \E reply \in Replies, n \in 0..MaxUids :
        LET r == ImapSearch(imap, reply, n) IN
        /\ imap' = r.imap
        /\ last' = Last("search_uids", r.raised, r.ops, imap, smtp)
        /\ UNCHANGED <<cfg, smtp, pc, view>>

CallFetchHeaders ==
    \E reply \in Replies :
        LET r == ImapFetchHeaders(imap, reply) IN
        /\ imap' = r.imap
        /\ last' = Last("fetch_headers", r.raised, r.ops, imap, smtp)
        /\ UNCHANGED <<cfg, smtp, pc, view>>

CallFetchFull ==
    \E reply \in Replies :
        LET r == ImapFetchFull(imap, reply) IN
        /\ imap' = r.imap
        /\ last' = Last("fetch_full", r.raised, r.ops, imap, smtp)
        /\ UNCHANGED <<cfg, smtp, pc, view>>

CallAppendMessage ==
    \E mailbox \in Folders, reply \in Replies :
        LET r == ImapAppend(imap, mailbox, reply) IN
        /\ imap' = r.imap
        /\ last' = [Last("append_message", r.raised, r.ops, imap, smtp)
                       EXCEPT !.folder = mailbox]
        /\ UNCHANGED <<cfg, smtp, pc, view>>

\* one call can leave two more connections open and unreferenced
CallSmtpConnect ==
    /\ smtp.leaked + 2 <= MaxLeaked
    /\ \E io \in ImplicitOutcomes, fo \in UpgradeOutcomes :
        LET r == SmtpConnect(smtp, cfg, io, fo) IN
        /\ smtp' = r.smtp
        /\ last' = [Last("smtp_connect", r.raised, r.ops, imap, smtp)
                       EXCEPT !.err = r.err]
        /\ UNCHANGED <<cfg, imap, pc, view>>

CallSmtpClose ==
    LET r == SmtpClose(smtp) IN
    /\ smtp' = r.smtp
    /\ last' = Last("smtp_close", r.raised, r.ops, imap, smtp)
    /\ UNCHANGED <<cfg, imap, pc, view>>

\* the recipient lists send_text is called with
Recipients == {<<>>, <<<<>>>>, <<<<"a">>>>}

\* a reply to a command that is not issued is not an input: OK stands for it
ArchiveInputs(archiver, sendReply, selReply, appReply) ==
    /\ (~archiver \/ sendReply # "accepted") => selReply = "OK"
    /\ selReply # "OK" => appReply = "OK"

CallSendText ==
    \E to \in Recipients, archiver \in BOOLEAN, sendReply \in SendReplies,
       selReply \in SelectReplies, appReply \in Replies :
        LET r == SmtpSendText(smtp, imap, to, sendReply, archiver, selReply, appReply) IN
        /\ ArchiveInputs(archiver, sendReply, selReply, appReply)
        /\ smtp' = r.smtp
        /\ imap' = r.imap
        /\ last' = [Last("send_text", r.raised, r.ops, imap, smtp)
                       EXCEPT !.warning = r.warning, !.reported = r.reported,
                              !.handed = TRUE, !.to = to, !.archiver = archiver,
                              !.selReply = IF Count(r.ops, "SELECT") = 0
                                             THEN "-" ELSE selReply]
        /\ UNCHANGED <<cfg, pc, view>>

Next ==
    \/ CallImapConnect
    \/ CallImapClose
    \/ CallSelectMailbox
    \/ CallSearchUids
    \/ CallFetchHeaders
    \/ CallFetchFull
    \/ CallAppendMessage
    \/ CallSmtpConnect
    \/ CallSmtpClose
    \/ CallSendText

Spec == Init /\ [][Next]_vars

\* the same with list_mailboxes, which multiplies the inputs by the LIST
\* responses
NextList ==
    \/ Next
    \/ CallListMailboxes

SpecList == Init /\ [][NextList]_vars

(***************************************************************************)
(* SpecParse: list_mailboxes against every shape of LIST response, with    *)
(* the response kept in the record of the call.                            *)
(***************************************************************************)
CallListResponse ==
    \E reply \in Replies, data \in Responses :
        /\ reply # "OK" => data = <<>>
        /\ \E r \in ImapListMailboxes(imap, reply, data) :
              /\ imap' = r.imap
              /\ last' = [Last("list_mailboxes", r.raised, r.ops, imap, smtp)
                             EXCEPT !.value = r.value, !.data = data]
              /\ UNCHANGED <<cfg, smtp, pc, view>>

NextParse ==
    \/ CallImapConnect
    \/ CallImapClose
    \/ CallListResponse

SpecParse == Init /\ [][NextParse]_vars

(***************************************************************************)
(* SpecMessage: the subject rules and extract_text_plain, applied to any   *)
(* message.  Each is a function of its argument alone and touches neither  *)
(* session, so it is applied once, from the initial state.                 *)
(***************************************************************************)
CallReplySubject ==
    \E h \in SubjectHeaders :
        /\ last.op = "init"
        /\ last' = [Last("reply_subject", FALSE, <<>>, imap, smtp)
                       EXCEPT !.original = h, !.subject = ReplySubject(h)]
        /\ UNCHANGED <<cfg, imap, smtp, pc, view>>

CallForwardSubject ==
    \E h \in SubjectHeaders :
        /\ last.op = "init"
        /\ last' = [Last("forward_subject", FALSE, <<>>, imap, smtp)
                       EXCEPT !.original = h, !.subject = ForwardSubject(h)]
        /\ UNCHANGED <<cfg, imap, smtp, pc, view>>

CallExtractTextPlain ==
    \E msg \in Messages :
        /\ last.op = "init"
        /\ last' = [Last("extract_text_plain", FALSE, <<>>, imap, smtp)
                       EXCEPT !.msg = msg, !.text = ExtractTextPlain(msg)]
        /\ UNCHANGED <<cfg, imap, smtp, pc, view>>

NextMessage ==
    \/ CallReplySubject
    \/ CallForwardSubject
    \/ CallExtractTextPlain

SpecMessage == Init /\ [][NextMessage]_vars

(***************************************************************************)
(* MailApp.                                                                *)
(*   pc    "start" before main() runs, "menu" at the menu prompt, "list"   *)
(*         at the message-number prompt of browse_folder, "msg" at the     *)
(*         reply / forward / back prompt of open_message, "exit" once the  *)
(*         process has ended                                               *)
(*   view  mailbox: the folder browse_folder was called with; origin: the  *)
(*         folder selected when its SEARCH ran; n: the UIDs it returned;   *)
(*         from: the From header of the open message                       *)
(***************************************************************************)
PageSize == 20
Min(a, b) == IF a <= b THEN a ELSE b

\* shutdown that lets an error of the first sign-off through
ShutdownStopsAtError(im, sm) ==
    LET a == SmtpClose(sm)
        b == ImapClose(im)
    IN IF a.ops # <<>> /\ ~a.ops[1].ok
         THEN [imap |-> im, smtp |-> a.smtp, ops |-> a.ops]
         ELSE [imap |-> b.imap, smtp |-> a.smtp, ops |-> a.ops \o b.ops]

\* MailApp.shutdown
Shutdown(im, sm) ==
    LET a == SmtpClose(sm)
        b == ImapClose(im)
    IN [imap |-> b.imap, smtp |-> a.smtp, ops |-> a.ops \o b.ops]

\* main() and MailApp.start up to main_menu: any exception is fatal and
\* main() shuts down
Start(im, sm, c, tlsOk, loginOk, io, fo, listReply, data) ==
    LET r1 == ImapConnect(im, tlsOk, loginOk)
        r2 == SmtpConnect(sm, c, io, fo)
        r3 == CHOOSE r \in ImapListMailboxes(r1.imap, listReply, data) : TRUE
        fatal(i, s, ops) ==
            LET d == Shutdown(i, s) IN
            [imap |-> d.imap, smtp |-> d.smtp, raised |-> TRUE,
             ops |-> ops \o d.ops, pc |-> "exit"]
    IN
    IF r1.raised THEN fatal(r1.imap, sm, r1.ops)
    ELSE IF r2.raised THEN fatal(r1.imap, r2.smtp, r1.ops \o r2.ops)
    ELSE IF r3.raised THEN fatal(r3.imap, r2.smtp, r1.ops \o r2.ops \o r3.ops)
    ELSE [imap |-> r3.imap, smtp |-> r2.smtp, raised |-> FALSE,
          ops |-> r1.ops \o r2.ops \o r3.ops, pc |-> "menu"]

\* the fetch_headers loop of browse_folder over uids i..k; hdr[i] is the
\* reply to the i-th fetch
RECURSIVE FetchHeadersFrom(_, _, _, _)
FetchHeadersFrom(im, hdr, i, k) ==
    IF i > k THEN [imap |-> im, raised |-> FALSE, ops |-> <<>>]
    ELSE LET r == ImapFetchHeaders(im, hdr[i]) IN
         IF r.raised THEN r
         ELSE LET rest == FetchHeadersFrom(r.imap, hdr, i + 1, k) IN
              [imap |-> rest.imap, raised |-> rest.raised, ops |-> r.ops \o rest.ops]

\* browse_folder without its select
BrowseFolderNoSelect(im, mailbox, selReply, searchReply, n, hdr) ==
    LET sr == ImapSearch(im, searchReply, n) IN
    IF sr.raised \/ sr.n = 0
      THEN [imap |-> sr.imap, raised |-> sr.raised, ops |-> sr.ops,
            prompt |-> FALSE, n |-> 0, origin |-> NoFolder]
      ELSE LET hs == FetchHeadersFrom(sr.imap, hdr, 1, Min(sr.n, PageSize)) IN
           [imap |-> hs.imap, raised |-> hs.raised, ops |-> sr.ops \o hs.ops,
            prompt |-> ~hs.raised, n |-> IF hs.raised THEN 0 ELSE sr.n,
            origin |-> IF hs.raised THEN NoFolder ELSE sr.ops[1].ctx]

\* browse_folder that gives the mailbox session up when its select fails
BrowseFolderClosesOnError(im, mailbox, selReply, searchReply, n, hdr) ==
    LET sl == ImapSelect(im, mailbox, selReply) IN
    IF sl.raised
      THEN LET c == ImapClose(sl.imap) IN
           [imap |-> c.imap, raised |-> TRUE, ops |-> sl.ops \o c.ops,
            prompt |-> FALSE, n |-> 0, origin |-> NoFolder]
      ELSE LET r == BrowseFolderNoSelect(sl.imap, mailbox, selReply, searchReply, n, hdr)
           IN [r EXCEPT !.ops = sl.ops \o r.ops]

\* MailApp.browse_folder up to its prompt.  prompt: the prompt is reached
\* (otherwise the method returned or raised)
BrowseFolder(im, mailbox, selReply, searchReply, n, hdr) ==
    LET sl == ImapSelect(im, mailbox, selReply) IN
    IF sl.raised
      THEN [imap |-> sl.imap, raised |-> TRUE, ops |-> sl.ops,
            prompt |-> FALSE, n |-> 0, origin |-> NoFolder]
      ELSE
        LET sr == ImapSearch(sl.imap, searchReply, n) IN
        IF sr.raised \/ sr.n = 0
          THEN [imap |-> sr.imap, raised |-> sr.raised, ops |-> sl.ops \o sr.ops,
                prompt |-> FALSE, n |-> 0, origin |-> NoFolder]
          ELSE
            LET hs == FetchHeadersFrom(sr.imap, hdr, 1, Min(sr.n, PageSize)) IN
            [imap |-> hs.imap, raised |-> hs.raised,
             ops |-> sl.ops \o sr.ops \o hs.ops,
             prompt |-> ~hs.raised, n |-> IF hs.raised THEN 0 ELSE sr.n,
             origin |-> IF hs.raised THEN NoFolder ELSE sr.ops[1].ctx]

\* the recipients compose_and_send and forward_message make of the line
\* input_nonempty returned
TypedRecipients(line) == ToAddrs(Strip(line))

\* the recipient lists the lines input_nonempty accepts give
PromptRecipients ==
    {TypedRecipients(line) : line \in {l \in TypedLines : Accepted(l)}}

\* the recipients reply_to_message makes of the original's From header
ReplyRecipients(from) == <<ParseAddr(from)>>

AppStart ==
    /\ pc = "start"
    /\ \E tlsOk \in BOOLEAN, loginOk \in BOOLEAN, io \in ImplicitOutcomes,
          fo \in UpgradeOutcomes, listReply \in Replies, data \in Listings :
        LET r == Start(imap, smtp, cfg, tlsOk, loginOk, io, fo, listReply, data) IN
        /\ listReply # "OK" => data = <<>>
        /\ imap' = r.imap
        /\ smtp' = r.smtp
        /\ pc' = r.pc
        /\ last' = Last("start", r.raised, r.ops, imap, smtp)
        /\ UNCHANGED <<cfg, view>>

\* a reply to a command that is not issued is not an input: OK stands for
\* it, and 0 for the UIDs of a SEARCH that returns none
BrowseInputs(selReply, searchReply, n, hdr) ==
    /\ selReply # "OK" => searchReply = "OK"
    /\ (selReply # "OK" \/ searchReply # "OK") => n = 0
    /\ \A i \in 1..MaxUids : i > n => hdr[i] = "OK"
    /\ \A i, j \in 1..MaxUids : (i < j /\ hdr[i] = "BAD") => hdr[j] = "OK"

\* menu choices 1 to 4
MenuBrowse ==
    /\ pc = "menu"
    /\ \E mailbox \in Folders, selReply \in SelectReplies, searchReply \in Replies,
          n \in 0..MaxUids, hdr \in [1..MaxUids -> Replies] :
        LET r == BrowseFolder(imap, mailbox, selReply, searchReply, n, hdr) IN
        /\ BrowseInputs(selReply, searchReply, n, hdr)
        /\ imap' = r.imap
        /\ pc' = IF r.prompt THEN "list" ELSE "menu"
        /\ view' = IF r.prompt
                     THEN [mailbox |-> mailbox, origin |-> r.origin, n |-> r.n,
                           from |-> "None"]
                     ELSE NoView
        /\ last' = [Last("browse", r.raised, r.ops, imap, smtp)
                       EXCEPT !.folder = mailbox]
        /\ UNCHANGED <<cfg, smtp>>

\* the message-number prompt: a number of the page opens that message
ListOpen ==
    /\ pc = "list"
    /\ \E sel \in 1..Min(view.n, PageSize), reply \in Replies, from \in FromHeaders :
        LET r == ImapFetchFull(imap, reply) IN
        /\ reply # "OK" => from = "None"
        /\ imap' = r.imap
        /\ pc' = IF r.raised THEN "menu" ELSE "msg"
        /\ view' = IF r.raised THEN NoView ELSE [view EXCEPT !.from = from]
        /\ last' = [Last("open", r.raised, r.ops, imap, smtp)
                       EXCEPT !.folder = view.origin]
        /\ UNCHANGED <<cfg, smtp>>

\* the message-number prompt: Enter, or anything that is not a number of
\* the page
ListBack ==
    /\ pc = "list"
    /\ pc' = "menu"
    /\ view' = NoView
    /\ last' = Last("back", FALSE, <<>>, imap, smtp)
    /\ UNCHANGED <<cfg, imap, smtp>>

\* what compose_and_send, reply_to_message and forward_message end with:
\* send_text(to, ..., imap_client=self.imap), an exception caught by
\* main_menu
SendFromMenu(op, to) ==
    \E sendReply \in SendReplies, selReply \in SelectReplies, appReply \in Replies :
        LET r == SmtpSendText(smtp, imap, to, sendReply, TRUE, selReply, appReply) IN
        /\ ArchiveInputs(TRUE, sendReply, selReply, appReply)
        /\ smtp' = r.smtp
        /\ imap' = r.imap
        /\ pc' = "menu"
        /\ view' = NoView
        /\ last' = [Last(op, r.raised, r.ops, imap, smtp)
                       EXCEPT !.warning = r.warning, !.reported = r.reported,
                              !.handed = TRUE, !.to = to, !.archiver = TRUE,
                              !.selReply = IF Count(r.ops, "SELECT") = 0
                                             THEN "-" ELSE selReply]
        /\ UNCHANGED cfg

\* menu choice 5
MenuCompose ==
    /\ pc = "menu"
    /\ \E to \in PromptRecipients : SendFromMenu("compose", to)

\* [o] at the message prompt
MsgReply ==
    /\ pc = "msg"
    /\ SendFromMenu("reply", ReplyRecipients(view.from))

\* [f] at the message prompt
MsgForward ==
    /\ pc = "msg"
    /\ \E to \in PromptRecipients : SendFromMenu("forward", to)

\* [b] at the message prompt
MsgBack ==
    /\ pc = "msg"
    /\ pc' = "menu"
    /\ view' = NoView
    /\ last' = Last("back", FALSE, <<>>, imap, smtp)
    /\ UNCHANGED <<cfg, imap, smtp>>

\* menu choice 0
MenuExit ==
    /\ pc = "menu"
    /\ LET d == Shutdown(imap, smtp) IN
        /\ imap' = d.imap
        /\ smtp' = d.smtp
        /\ last' = Last("exit", FALSE, d.ops, imap, smtp)
    /\ pc' = "exit"
    /\ view' = NoView
    /\ UNCHANGED cfg

\* Ctrl-C at a prompt: main() catches KeyboardInterrupt and shuts down
Interrupt ==
    /\ pc \in {"menu", "list", "msg"}
    /\ LET d == Shutdown(imap, smtp) IN
        /\ imap' = d.imap
        /\ smtp' = d.smtp
        /\ last' = Last("interrupt", FALSE, d.ops, imap, smtp)
    /\ pc' = "exit"
    /\ view' = NoView
    /\ UNCHANGED cfg

NextApp ==
    \/ AppStart
    \/ MenuBrowse
    \/ ListOpen
    \/ ListBack
    \/ MenuCompose
    \/ MsgReply
    \/ MsgForward
    \/ MsgBack
    \/ MenuExit
    \/ Interrupt

SpecApp == Init /\ [][NextApp]_vars

(***************************************************************************)
(* Reading the record of a call.                                           *)
(***************************************************************************)
Issued(name) == \E i \in 1..Len(last.ops) : last.ops[i].op = name
IssuedOk(name) ==
    \E i \in 1..Len(last.ops) : last.ops[i].op = name /\ last.ops[i].ok

\* the commands of connect up to the opening of port 587, and from it on
FirstUpgrade(ops) ==
    IF \E i \in 1..Len(ops) : ops[i].op = "smtp_open587"
      THEN CHOOSE i \in 1..Len(ops) :
               ops[i].op = "smtp_open587"
                   /\ \A j \in 1..(i - 1) : ops[j].op # "smtp_open587"
      ELSE Len(ops) + 1
ImplicitOps == SubSeq(last.ops, 1, FirstUpgrade(last.ops) - 1)
UpgradeOps == SubSeq(last.ops, FirstUpgrade(last.ops), Len(last.ops))
ImplicitFailed == ImplicitOps # <<>> /\ ~ImplicitOps[Len(ImplicitOps)].ok
ImplicitSucceeded == ImplicitOps # <<>> /\ ImplicitOps[Len(ImplicitOps)].ok

(***************************************************************************)
(* C1: connect with ssl and starttls_fallback both on: whenever the        *)
(* implicit attempt fails (at open or at login), port 587 is opened        *)
(* exactly once, port 465 is not opened again, and connect returns         *)
(* normally exactly when that one STARTTLS attempt ends in a successful    *)
(* login; when it does not, the exception of that attempt leaves connect.  *)
(***************************************************************************)
C1_FallbackOnce ==
    (last.op = "smtp_connect" /\ cfg.ssl /\ cfg.fallback /\ ImplicitFailed) =>
        /\ Count(last.ops, "smtp_open587") = 1
        /\ Count(last.ops, "smtp_open465") = 1
        /\ Count(last.ops, "smtp_starttls") <= 1
        /\ UpgradeOps # <<>>
        /\ last.raised = ~UpgradeOps[Len(UpgradeOps)].ok
        /\ last.raised => last.err = "upgrade"
        /\ ~last.raised =>
              /\ UpgradeOps[Len(UpgradeOps)].op = "smtp_login"
              /\ smtp.conn = Conn("plain", TRUE, TRUE, TRUE)

\* the implicit login was refused and the STARTTLS attempt then succeeded
C1_Witness ==
    /\ last.op = "smtp_connect" /\ cfg.ssl /\ cfg.fallback /\ ImplicitFailed
    /\ Len(ImplicitOps) = 2
    /\ ~last.raised

(***************************************************************************)
(* C2: connect with ssl on and starttls_fallback off: whenever the         *)
(* implicit attempt fails, connect raises the exception of that attempt    *)
(* and nothing of the STARTTLS path is done: port 587 is not opened, no    *)
(* EHLO or STARTTLS is sent, nothing goes over a plaintext channel.        *)
(***************************************************************************)
C2_NoFallback ==
    (last.op = "smtp_connect" /\ cfg.ssl /\ ~cfg.fallback /\ ImplicitFailed) =>
        /\ last.raised
        /\ last.err = "implicit"
        /\ \A i \in 1..Len(last.ops) :
              /\ last.ops[i].op \in {"smtp_open465", "smtp_login"}
              /\ last.ops[i].ctx = "tls"
        /\ smtp.conn.kind # "plain"

\* the implicit login was refused with fallback off
C2_Witness ==
    /\ last.op = "smtp_connect" /\ cfg.ssl /\ ~cfg.fallback /\ ImplicitFailed
    /\ Len(last.ops) = 2

(***************************************************************************)
(* C3: connect tries implicit TLS first and STARTTLS second, first success *)
(* wins: port 465 is never opened after port 587; when the implicit        *)
(* attempt succeeds port 587 is not opened; at most one login succeeds,    *)
(* connect returns normally exactly when one does, and self.conn is then   *)
(* the authenticated connection of that strategy; with neither strategy    *)
(* configured connect raises without opening anything.                     *)
(***************************************************************************)
C3_FirstSuccessWins ==
    last.op = "smtp_connect" =>
        /\ \A i, j \in 1..Len(last.ops) :
              (last.ops[i].op = "smtp_open587" /\ last.ops[j].op = "smtp_open465")
                  => j < i
        /\ ImplicitSucceeded => UpgradeOps = <<>>
        /\ Cardinality({i \in 1..Len(last.ops) :
                           last.ops[i].op = "smtp_login" /\ last.ops[i].ok}) <= 1
        /\ ~last.raised <=> IssuedOk("smtp_login")
        /\ ~last.raised =>
              smtp.conn = Conn(IF UpgradeOps = <<>> THEN "ssl" ELSE "plain",
                               TRUE, TRUE, TRUE)
        /\ (~cfg.ssl /\ ~cfg.fallback) => (last.raised /\ last.ops = <<>>)

\* both strategies configured and the implicit one succeeded
C3_Witness ==
    /\ last.op = "smtp_connect" /\ cfg.ssl /\ cfg.fallback
    /\ ImplicitSucceeded
    /\ ~last.raised

(***************************************************************************)
(* C4 (as claimed): send_text with an archiver, after the transmission     *)
(* succeeded: whenever the copy was not stored (the select of Sent failed, *)
(* or the server rejected the append), send_text returns normally, prints  *)
(* the warning and does not print that the copy was written.               *)
(***************************************************************************)
C4_ArchivalFailureWarns ==
    (/\ last.op = "send_text" /\ last.archiver
     /\ IssuedOk("smtp_send")
     /\ ~IssuedOk("APPEND")) =>
        /\ ~last.raised
        /\ last.warning
        /\ ~last.reported

(***************************************************************************)
(* C5: in send_text the archival comes only after a successful             *)
(* transmission, select(Sent) then append(Sent): when the transmission     *)
(* fails send_text raises, no SELECT or APPEND is issued and the IMAP      *)
(* session is as before; a SELECT is the command right after the accepted  *)
(* transmission, an APPEND the command right after a successful SELECT.    *)
(***************************************************************************)
C5_ArchiveAfterSend ==
    last.op = "send_text" =>
        /\ ~IssuedOk("smtp_send") =>
              /\ last.raised
              /\ ~Issued("SELECT") /\ ~Issued("APPEND")
              /\ imap = last.preImap
        /\ \A i \in 1..Len(last.ops) :
              last.ops[i].op = "SELECT" =>
                  /\ i = 2
                  /\ last.ops[1].op = "smtp_send" /\ last.ops[1].ok
                  /\ last.ops[i].arg = SentBox
        /\ \A i \in 1..Len(last.ops) :
              last.ops[i].op = "APPEND" =>
                  /\ i = 3
                  /\ last.ops[2].op = "SELECT" /\ last.ops[2].ok
                  /\ last.ops[i].arg = SentBox

\* the server rejected the message while the archiver had a folder selected
C5_Witness ==
    /\ last.op = "send_text" /\ last.archiver
    /\ Issued("smtp_send") /\ ~IssuedOk("smtp_send")
    /\ last.preImap.conn = "SELECTED"
    /\ last.raised

(***************************************************************************)
(* C6 (as claimed): a method called in a session state earlier than the    *)
(* one it needs raises and leaves both sessions as they were: list,        *)
(* select, append need a successful IMAP connect; search and the fetches   *)
(* need a successful select; send_text needs a successful SMTP connect.    *)
(***************************************************************************)
TooEarly ==
    \/ /\ last.op \in {"list_mailboxes", "select_mailbox", "append_message"}
       /\ last.preImap.conn \notin {"AUTH", "SELECTED"}
    \/ /\ last.op \in {"search_uids", "fetch_headers", "fetch_full"}
       /\ last.preImap.conn # "SELECTED"
    \/ /\ last.op = "send_text"
       /\ ~last.preSmtp.conn.auth

C6_TooEarlyFails ==
    TooEarly => (last.raised /\ imap = last.preImap /\ smtp = last.preSmtp)

(***************************************************************************)
(* C7 (as claimed): a select the server refuses (the folder is missing or  *)
(* cannot be accessed) makes select_mailbox raise and leaves the session   *)
(* as it was: the folder selected before the refused select_mailbox, or    *)
(* before the refused select of Sent inside send_text, is still the        *)
(* selected folder, and no folder is selected if none was.                 *)
(***************************************************************************)
C7_FailedSelectKeepsState ==
    (/\ last.op \in {"select_mailbox", "send_text"}
     /\ last.selReply \in {"NO", "BAD"}) =>
        /\ ~IssuedOk("SELECT")
        /\ last.op = "select_mailbox" => last.raised
        /\ imap = last.preImap

(***************************************************************************)
(* C8: in the program, every SEARCH and every header or full FETCH is      *)
(* issued while the selected folder is the folder being browsed, the one   *)
(* the UIDs in use were obtained in; and while the program holds UIDs (at  *)
(* the message-number prompt and at the message prompt) that folder is     *)
(* still the selected one.  The select of Sent made by send_text's         *)
(* archival is followed by the select of browse_folder before any further  *)
(* SEARCH or FETCH.                                                        *)
(***************************************************************************)
FolderScoped == {"SEARCH", "FETCH_HEADERS", "FETCH_FULL"}

C8_NoStaleSelection ==
    /\ \A i \in 1..Len(last.ops) :
          last.ops[i].op \in FolderScoped =>
              /\ last.op \in {"browse", "open"}
              /\ last.ops[i].ctx # NoFolder
              /\ last.ops[i].ctx = last.folder
    /\ pc \in {"list", "msg"} =>
          /\ view.origin = view.mailbox
          /\ imap = [conn |-> "SELECTED", sel |-> view.origin]

\* a folder other than Sent is browsed right after an archival left Sent
\* selected, and its messages are searched and listed
C8_Witness ==
    /\ last.op = "browse"
    /\ last.preImap.sel = SentBox
    /\ last.folder # SentBox
    /\ IssuedOk("SEARCH") /\ IssuedOk("FETCH_HEADERS")
    /\ pc = "list"

(***************************************************************************)
(* C9 (as claimed): every recipient list handed to send_text by            *)
(* compose_and_send, reply_to_message or forward_message is non-empty and  *)
(* holds only non-empty addresses.                                         *)
(***************************************************************************)
C9_RecipientsNeverEmpty ==
    last.handed =>
        /\ last.to # <<>>
        /\ \A i \in 1..Len(last.to) : last.to[i] # <<>>

(***************************************************************************)
(* C10 (as claimed): the list list_mailboxes returns has no two names      *)
(* that are equal when compared case-insensitively, and is in              *)
(* non-decreasing case-insensitive order.                                  *)
(***************************************************************************)
C10_CaseInsensitiveSet ==
    last.op = "list_mailboxes" =>
        \A i, j \in 1..Len(last.value) :
            i < j =>
                /\ LowerStr(last.value[i]) # LowerStr(last.value[j])
                /\ StrLeq(LowerStr(last.value[i]), LowerStr(last.value[j]))

(***************************************************************************)
(* list_mailboxes on LIST responses (SpecParse).                           *)
(***************************************************************************)
\* the name a well-formed line carries
NameIn(line) ==
    CHOOSE n \in FolderNames :
        \E d \in Delimiters, q \in BOOLEAN : line = Line(d, n, q)

\* the response without the lines that satisfy drop
RECURSIVE Without(_, _)
Without(data, drop) ==
    IF data = <<>> THEN <<>>
    ELSE (IF Head(data) \in drop THEN <<>> ELSE <<Head(data)>>)
             \o Without(Tail(data), drop)

ListedOk == last.op = "list_mailboxes" /\ IssuedOk("LIST")

(***************************************************************************)
(* C11 (as claimed): for a LIST response of well-formed lines (and lines   *)
(* that only tell the delimiter), list_mailboxes returns exactly the       *)
(* names the well-formed lines carry, quoted or bare, whatever the form    *)
(* of the delimiter; no delimiter is among them.                           *)
(***************************************************************************)
C11_NamesExtracted ==
    (/\ ListedOk
     /\ \A i \in 1..Len(last.data) :
            last.data[i] \in WellFormedLines \cup SentinelLines)
    => /\ ~last.raised
       /\ SeqRange(last.value) =
              {NameIn(last.data[i]) :
                  i \in {k \in 1..Len(last.data) : last.data[k] \in WellFormedLines}}

(***************************************************************************)
(* C12 (as claimed): list_mailboxes does not raise on a response with      *)
(* malformed lines, and returns what it returns for the response without   *)
(* them: a malformed line adds no name and takes none away.                *)
(***************************************************************************)
C12_MalformedSkipped ==
    ListedOk =>
        /\ ~last.raised
        /\ SeqRange(last.value) =
               SeqRange(Boxes(Without(last.data, MalformedLines)))

(***************************************************************************)
(* Subjects (SpecMessage).                                                 *)
(***************************************************************************)
\* the number of "re:" prefixes, in any letter case, a subject begins with
RECURSIVE RePrefixes(_)
RePrefixes(s) ==
    IF StartsWith(LowerStr(s), <<"r", "e", ":">>)
      THEN 1 + RePrefixes(LStrip(SubSeq(s, 4, Len(s))))
      ELSE 0

Replied == last.op = "reply_subject"
Forwarded == last.op = "forward_subject"

(***************************************************************************)
(* C13 (as claimed): the subject of a reply begins with exactly one "Re:"  *)
(* prefix, whatever the original subject; a subject that already has the   *)
(* prefix in any letter case is returned unchanged; the rule applied to    *)
(* its own result returns it unchanged.                                    *)
(***************************************************************************)
C13_ExactlyOneRe ==
    Replied =>
        /\ RePrefixes(last.subject) = 1
        /\ RePrefixes(SubjectOf(last.original)) >= 1
              => last.subject = SubjectOf(last.original)
        /\ ReplySubject(last.subject) = last.subject

(***************************************************************************)
(* C13 (amended): the subject of a reply begins with as many "Re:"         *)
(* prefixes as the original, and with one when the original has none: the  *)
(* rule adds one prefix or none, and removes none.  A subject that already *)
(* has the prefix in any letter case is returned unchanged; the rule       *)
(* applied to its own result returns it unchanged.                         *)
(***************************************************************************)
C13_RePrefixKept ==
    Replied =>
        LET n == RePrefixes(SubjectOf(last.original)) IN
        /\ RePrefixes(last.subject) = (IF n = 0 THEN 1 ELSE n)
        /\ n >= 1 => last.subject = SubjectOf(last.original)
        /\ n = 0 => last.subject = <<"R", "e", ":", " ">> \o SubjectOf(last.original)
        /\ ReplySubject(last.subject) = last.subject

\* a reply to a subject with two prefixes, the first not spelled "Re:"
C13_Witness ==
    /\ Replied
    /\ RePrefixes(last.original) = 2
    /\ ~StartsWith(last.original, <<"R", "e", ":">>)
    /\ last.subject = last.original

(***************************************************************************)
(* C14: the subject of a forward is the original subject when that begins  *)
(* with "fw:" in any letter case, and "Fwd: " followed by the original     *)
(* subject otherwise.                                                      *)
(***************************************************************************)
C14_ForwardSubject ==
    Forwarded =>
        LET s == SubjectOf(last.original) IN
        IF Len(s) >= 3 /\ Lower(s[1]) = "f" /\ Lower(s[2]) = "w" /\ s[3] = ":"
          THEN last.subject = s
          ELSE /\ Len(last.subject) = Len(s) + 5
               /\ SubSeq(last.subject, 1, 5) = <<"F", "w", "d", ":", " ">>
               /\ SubSeq(last.subject, 6, Len(last.subject)) = s

\* a forward of a subject that has the prefix in another letter case
C14_Witness ==
    /\ Forwarded
    /\ StartsWith(last.original, <<"f", "W", ":">>)
    /\ last.subject = last.original

(***************************************************************************)
(* extract_text_plain (SpecMessage).                                       *)
(***************************************************************************)
\* the plain-text parts of the message that are no attachment
PlainBodies(msg) ==
    {i \in 1..Len(msg.parts) :
        msg.parts[i].ctype = "text/plain" /\ ~msg.parts[i].attachment}

MenuOps == {"browse", "open", "compose", "reply", "forward"}
SessionOps ==
    {"imap_open", "imap_login", "imap_logout", "smtp_open465", "smtp_open587",
     "smtp_ehlo", "smtp_starttls", "smtp_login", "smtp_quit"}
AtPrompt == pc \in {"menu", "list", "msg"}

(***************************************************************************)
(* C16: a menu action that fails is reported and the application is back   *)
(* at the menu with the sessions it had: the failing action issues no      *)
(* connect, login or sign-off, the submission session is as before, and    *)
(* at every prompt the mailbox session is authenticated and the            *)
(* submission session open and authenticated.  A sign-off is issued only   *)
(* by the menu exit, by an interrupt, or by a start that failed.           *)
(***************************************************************************)
C16_FailureKeepsSessions ==
    /\ AtPrompt =>
          /\ imap.conn \in {"AUTH", "SELECTED"}
          /\ smtp.conn.open /\ smtp.conn.auth
    /\ (last.op \in MenuOps /\ last.raised) =>
          /\ pc = "menu"
          /\ smtp = last.preSmtp
          /\ \A i \in 1..Len(last.ops) : last.ops[i].op \notin SessionOps
    /\ (Issued("imap_logout") \/ Issued("smtp_quit")) =>
          \/ last.op \in {"exit", "interrupt"}
          \/ last.op = "start" /\ last.raised

\* a browse whose select was refused while another folder was selected
C16_Witness ==
    /\ last.op = "browse" /\ last.raised
    /\ last.preImap.conn = "SELECTED"
    /\ imap.conn = "AUTH"
    /\ pc = "menu"

(***************************************************************************)
(* C17: once the process has ended, by the menu exit, by an interrupt or   *)
(* by a failed start, close was called on both sessions: each session      *)
(* that holds a connection object issued its sign-off, the submission      *)
(* session first, and a sign-off that failed did not keep the other from   *)
(* being issued; neither session is left open.                             *)
(***************************************************************************)
C17_BothClosedAtExit ==
    pc = "exit" =>
        /\ last.op \in {"exit", "interrupt", "start"}
        /\ imap.conn \in {"None", "LOGOUT"}
        /\ ~smtp.conn.open
        /\ Count(last.ops, "smtp_quit") = (IF smtp.conn.kind = "None" THEN 0 ELSE 1)
        /\ Count(last.ops, "imap_logout") = (IF imap.conn = "None" THEN 0 ELSE 1)
        /\ \A i, j \in 1..Len(last.ops) :
              (last.ops[i].op = "smtp_quit" /\ last.ops[j].op = "imap_logout") => i < j

\* a start that failed after the submission server had dropped the
\* connection: quit fails, logout is issued all the same
C17_Witness ==
    /\ pc = "exit"
    /\ last.op = "start"
    /\ \E i \in 1..Len(last.ops) : last.ops[i].op = "smtp_quit" /\ ~last.ops[i].ok
    /\ Issued("imap_logout")

(***************************************************************************)
(* C18: every login, of the mailbox session and of either strategy of the  *)
(* submission session, is sent on an encrypted channel, right after the    *)
(* step that encrypted it succeeded; after a failed STARTTLS nothing more  *)
(* is sent by connect.                                                     *)
(***************************************************************************)
Encrypting == {"imap_open", "smtp_open465", "smtp_starttls"}
C18_LoginOnlyEncrypted ==
    \A i \in 1..Len(last.ops) :
        /\ last.ops[i].op \in {"imap_login", "smtp_login"} =>
              /\ last.ops[i].ctx = "tls"
              /\ i > 1
              /\ last.ops[i - 1].op \in Encrypting /\ last.ops[i - 1].ok
        /\ (last.ops[i].op = "smtp_starttls" /\ ~last.ops[i].ok) =>
              /\ i = Len(last.ops)
              /\ last.raised

\* a connect whose implicit attempt failed and whose STARTTLS was refused
C18_Witness ==
    /\ last.op = "smtp_connect"
    /\ Issued("smtp_open465")
    /\ \E i \in 1..Len(last.ops) :
          last.ops[i].op = "smtp_starttls" /\ ~last.ops[i].ok

(***************************************************************************)
(* C19 (as claimed): after connect failed on a session that held no        *)
(* connection, the session holds none: conn is unset.                      *)
(***************************************************************************)
C19_FailedConnectUnset ==
    /\ (last.op = "imap_connect" /\ last.raised /\ last.preImap.conn = "None")
          => imap.conn = "None"
    /\ (last.op = "smtp_connect" /\ last.raised /\ last.preSmtp.conn.kind = "None")
          => smtp.conn = ConnNone

(***************************************************************************)
(* C20 (as claimed): no connection the submission session opened is left   *)
(* open without the session referring to it.                               *)
(***************************************************************************)
C20_NoUnreferencedConnection == smtp.leaked = 0

=============================================================================
